---- MODULE Spec2Model ----
(***************************************************************************)
(* Model of generate_gtest_md.py: one run of main() that loads a GoogleTest *)
(* XML report, aggregates the declared counts of its testsuite elements,    *)
(* collects failing and passed testcases, renders a Markdown document and   *)
(* delivers it to --out, $GITHUB_STEP_SUMMARY and the console.              *)
(*                                                                          *)
(* Text is modelled as a sequence of one-character strings, an XML document *)
(* as a sequence of element nodes numbered in document (pre-)order.         *)
(***************************************************************************)
EXTENDS Integers, Sequences, FiniteSets, TLC

(***************************************************************************)
(* Bounds of the input space                                                *)
(***************************************************************************)
\* most elements of a report in the tree-shape slice of the inputs
MaxNodes == 4
\* most testsuite elements of a report in the declared-count slice
MaxSuites == 2
\* most testcase elements of a report in the display-limit slice
MaxCases == 3

(***************************************************************************)
(* Text helpers (Python str operations used by the program)                 *)
(***************************************************************************)
\* an attribute that is not present (Element.get returns its default), or an
\* element text that is None; no text of the model equals it
Absent == <<"<absent>">>

Digits == <<"0", "1", "2", "3", "4", "5", "6", "7", "8", "9">>

IsDigit(c) == \E d \in 1..10 : Digits[d] = c

DigitVal(c) == (CHOOSE d \in 1..10 : Digits[d] = c) - 1

IsSpace(c) == c = " "

\* str.lstrip() / str.rstrip() / str.strip() over the model's whitespace
RECURSIVE LStrip(_)
LStrip(s) == IF s # <<>> /\ IsSpace(Head(s)) THEN LStrip(Tail(s)) ELSE s

RECURSIVE RStrip(_)
RStrip(s) ==
    IF s # <<>> /\ IsSpace(s[Len(s)]) THEN RStrip(SubSeq(s, 1, Len(s) - 1)) ELSE s

Strip(s) == RStrip(LStrip(s))

\* sep.join(parts)
RECURSIVE Join(_, _)
Join(sep, parts) ==
    IF parts = <<>> THEN <<>>
    ELSE IF Len(parts) = 1 THEN parts[1]
    ELSE parts[1] \o sep \o Join(sep, Tail(parts))

\* s.replace("|", "\\|")
RECURSIVE escape_md(_)
escape_md(s) ==
    IF s = <<>> THEN <<>>
    ELSE (IF Head(s) = "|" THEN <<"\\", "|">> ELSE <<Head(s)>>) \o escape_md(Tail(s))

\* the digits of an int() literal after the sign: at least one digit, single
\* underscores only between digits
RECURSIVE DigitsOk(_, _)
DigitsOk(s, prevDigit) ==
    IF s = <<>> THEN prevDigit
    ELSE IF IsDigit(Head(s)) THEN DigitsOk(Tail(s), TRUE)
    ELSE IF Head(s) = "_" THEN prevDigit /\ DigitsOk(Tail(s), FALSE)
    ELSE FALSE

RECURSIVE DigitsValue(_, _)
DigitsValue(s, acc) ==
    IF s = <<>> THEN acc
    ELSE IF Head(s) = "_" THEN DigitsValue(Tail(s), acc)
    ELSE DigitsValue(Tail(s), 10 * acc + DigitVal(Head(s)))

\* int(s) for a str s: surrounding whitespace is ignored, then an optional
\* sign and decimal digits; anything else raises ValueError (ok = FALSE)
PyInt(s) ==
    LET t == Strip(s)
        signed == t # <<>> /\ Head(t) \in {"+", "-"}
        body == IF signed THEN Tail(t) ELSE t
        ok == DigitsOk(body, FALSE)
    IN  [ok |-> ok,
         val |-> IF ~ok THEN 0
                 ELSE IF signed /\ Head(t) = "-" THEN 0 - DigitsValue(body, 0)
                 ELSE DigitsValue(body, 0)]

(***************************************************************************)
(* XML documents (xml.etree.ElementTree)                                    *)
(* A document is a sequence of element nodes in document order; node 1 is   *)
(* the root, parent = 0 for the root, and every other node's parent comes   *)
(* before it.                                                               *)
(***************************************************************************)
AttrNames ==
    {"name", "tests", "failures", "errors", "skipped", "time", "classname", "message"}

NoAttrs == [a \in AttrNames |-> Absent]

Node(tag, parent, attrs, text) ==
    [tag |-> tag, parent |-> parent, attrs |-> attrs, text |-> text]

\* the elements of a set of node numbers, ascending
RECURSIVE Ascending(_)
Ascending(S) ==
    IF S = {} THEN <<>>
    ELSE LET m == CHOOSE x \in S : \A y \in S : x <= y
         IN  <<m>> \o Ascending(S \ {m})

\* list(elem): the direct children, in document order
Children(doc, n) == Ascending({i \in 1..Len(doc) : doc[i].parent = n})

RECURSIVE Flatten(_)
Flatten(ss) == IF ss = <<>> THEN <<>> ELSE Head(ss) \o Flatten(Tail(ss))

\* elem.iter(): the element, then the iter() of each child in turn
RECURSIVE Iter(_, _)
Iter(doc, n) ==
    LET ch == Children(doc, n)
    IN  <<n>> \o Flatten([k \in 1..Len(ch) |-> Iter(doc, ch[k])])

\* elem.findall(tag): the direct children with that tag
FindAll(doc, n, tag) ==
    LET IsTag(i) == doc[i].tag = tag
    IN  SelectSeq(Children(doc, n), IsTag)

\* elem.findall(".//" + tag): every descendant with that tag, the element
\* itself left out
FindAllDeep(doc, n, tag) ==
    LET Hit(i) == i # n /\ doc[i].tag = tag
    IN  SelectSeq(Iter(doc, n), Hit)

\* elem.find(tag): the first direct child with that tag, 0 for None
Find(doc, n, tag) ==
    LET hits == FindAll(doc, n, tag)
    IN  IF hits = <<>> THEN 0 ELSE hits[1]

\* elem.get(attr, default) for a text default
Get(doc, n, attr, default) ==
    IF doc[n].attrs[attr] = Absent THEN default ELSE doc[n].attrs[attr]

\* elem.text or ""
TextOrEmpty(doc, n) == IF doc[n].text = Absent THEN <<>> ELSE doc[n].text

\* variant of load_suites that always searches the whole tree
load_suites_deep(doc) == FindAllDeep(doc, 1, "testsuite")

load_suites(doc) ==
    IF doc[1].tag = "testsuites" THEN FindAll(doc, 1, "testsuite")
    ELSE IF doc[1].tag = "testsuite" THEN <<1>>
    ELSE FindAllDeep(doc, 1, "testsuite")

\* int(suite.get(attr, 0) or 0): an absent or empty attribute is 0, any other
\* text goes through int()
CountAttr(doc, n, attr) ==
    LET v == doc[n].attrs[attr]
    IN  IF v = Absent \/ v = <<>> THEN [ok |-> TRUE, val |-> 0] ELSE PyInt(v)

(***************************************************************************)
(* Aggregation helpers (the body of the loops of main)                      *)
(***************************************************************************)
Unnamed == <<"(", "u", "n", "n", "a", "m", "e", "d", ")">>

Ellipsis == <<".", ".", ".">>

PartSeparator == <<" ", "|", " ">>

\* variant of SuitePassed that clamps at zero
SuitePassedClamped(tests, failures, errors, skipped) ==
    IF tests - failures - errors - skipped < 0 THEN 0
    ELSE tests - failures - errors - skipped

\* passed = tests - failures - errors - skipped
SuitePassed(tests, failures, errors, skipped) == tests - failures - errors - skipped

\* the row appended to table_rows for one suite with parsed counts
SuiteRow(doc, n, tests, failures, errors, skipped) ==
    LET name == Get(doc, n, "name", <<>>)
    IN  [name |-> IF name # <<>> THEN name ELSE Unnamed,
         tests |-> tests,
         passed |-> SuitePassed(tests, failures, errors, skipped),
         failures |-> failures,
         errors |-> errors,
         skipped |-> skipped,
         time |-> Get(doc, n, "time", <<>>)]

\* f"{cname}.{tname}" if cname else tname
FullName(doc, c) ==
    LET cname == Get(doc, c, "classname", <<>>)
        tname == Get(doc, c, "name", <<>>)
    IN  IF cname # <<>> THEN cname \o <<".">> \o tname ELSE tname

\* (el.get("message", "") + " " + (el.text or "")).strip()
MarkerPart(doc, m) == Strip(Get(doc, m, "message", <<>>) \o <<" ">> \o TextOrEmpty(doc, m))

\* msg_parts: the failure part, then the error part, of the markers present
MsgParts(doc, c) ==
    LET failure_el == Find(doc, c, "failure")
        error_el == Find(doc, c, "error")
    IN  (IF failure_el # 0 THEN <<MarkerPart(doc, failure_el)>> ELSE <<>>)
        \o (IF error_el # 0 THEN <<MarkerPart(doc, error_el)>> ELSE <<>>)

\* variant of JoinParts that keeps empty parts
JoinPartsKeepEmpty(parts) == Join(PartSeparator, parts)

\* " | ".join(p for p in msg_parts if p)
JoinParts(parts) ==
    LET NonEmpty(p) == p # <<>>
    IN  Join(PartSeparator, SelectSeq(parts, NonEmpty))

\* variant of Truncate without the limit > 0 test
TruncateUnguarded(message, limit) ==
    IF Len(message) > limit
    THEN SubSeq(message, 1, IF limit >= 0 THEN limit ELSE Len(message) + limit) \o Ellipsis
    ELSE message

\* message[:limit] + "..." when limit > 0 and len(message) > limit
Truncate(message, limit) ==
    IF limit > 0 /\ Len(message) > limit
    THEN SubSeq(message, 1, limit) \o Ellipsis
    ELSE message

\* "failing", "skipped" or "passed": the branch of the if/elif/else a case takes
CaseBranch(doc, c) ==
    IF Find(doc, c, "failure") # 0 \/ Find(doc, c, "error") # 0 THEN "failing"
    ELSE IF Find(doc, c, "skipped") # 0 THEN "skipped"
    ELSE "passed"

(***************************************************************************)
(* Rendering                                                                *)
(***************************************************************************)
\* the status label; <check>, <cross> and <warn> stand for the emoji
StatusLabel(no_emoji, total_fail, total_err) ==
    IF no_emoji
    THEN IF total_fail + total_err = 0 THEN "ALL PASSED"
         ELSE IF total_fail # 0 THEN "FAILURES"
         ELSE IF total_err # 0 THEN "ERRORS"
         ELSE "ISSUES"
    ELSE IF total_fail + total_err = 0 THEN "<check> All Passed"
         ELSE IF total_fail # 0 THEN "<cross> Failures"
         ELSE IF total_err # 0 THEN "<warn> Errors"
         ELSE "<warn> Issues"

\* one line of md_lines: its kind, a label, its texts and its numbers
Line(kind, label, texts, nums) ==
    [kind |-> kind, label |-> label, texts |-> texts, nums |-> nums]

BlankLine == Line("blank", "", <<>>, <<>>)

\* variant of ShownCases whose slice is one too long
ShownCasesOneMore(failing, max_fail) ==
    IF max_fail < 0 THEN failing
    ELSE SubSeq(failing, 1, IF max_fail + 1 < Len(failing) THEN max_fail + 1 ELSE Len(failing))

\* failing_cases if max_fail < 0 else failing_cases[:max_fail]
ShownCases(failing, max_fail) ==
    IF max_fail < 0 THEN failing
    ELSE SubSeq(failing, 1, IF max_fail < Len(failing) THEN max_fail ELSE Len(failing))

\* the "Failed / Error TestCases" section
FailSection(failing, max_fail) ==
    IF failing # <<>> /\ max_fail # 0
    THEN LET shown == ShownCases(failing, max_fail)
             hidden == Len(failing) - Len(shown)
         IN  <<BlankLine, Line("fail_heading", "", <<>>, <<>>)>>
             \o [k \in 1..Len(shown) |->
                    Line("fail_item", "",
                         <<escape_md(shown[k].name), escape_md(shown[k].message)>>, <<>>)]
             \o (IF hidden > 0 THEN <<Line("hidden_note", "", <<>>, <<hidden>>)>> ELSE <<>>)
    ELSE <<>>

\* the collapsible "Passed TestCases" section
PassedSection(passed) ==
    IF passed # <<>>
    THEN <<BlankLine, Line("passed_open", "", <<>>, <<Len(passed)>>)>>
         \o [k \in 1..Len(passed) |-> Line("passed_item", "", <<escape_md(passed[k])>>, <<>>)]
         \o <<Line("passed_close", "", <<>>, <<>>)>>
    ELSE <<>>

\* md_lines: title, status, the per-suite table, the Totals table and the two
\* optional sections
RenderLines(label, rows, tt, tp, tf, te, ts, failing, passed, max_fail) ==
    <<Line("title", "", <<>>, <<>>), Line("status", label, <<>>, <<>>), BlankLine,
      Line("table_head", "", <<>>, <<>>), Line("table_rule", "", <<>>, <<>>)>>
    \o [k \in 1..Len(rows) |->
           Line("row", "", <<escape_md(rows[k].name), escape_md(rows[k].time)>>,
                <<rows[k].tests, rows[k].passed, rows[k].failures, rows[k].errors,
                  rows[k].skipped>>)]
    \o <<BlankLine, Line("totals_heading", "", <<>>, <<>>),
         Line("totals_head", "", <<>>, <<>>), Line("totals_rule", "", <<>>, <<>>),
         Line("total", "Total", <<>>, <<tt>>), Line("total", "Passed", <<>>, <<tp>>),
         Line("total", "Failed", <<>>, <<tf>>), Line("total", "Errors", <<>>, <<te>>),
         Line("total", "Skipped", <<>>, <<ts>>)>>
    \o FailSection(failing, max_fail)
    \o PassedSection(passed)

\* the lines of one kind, in document order
LinesOf(md, kind) ==
    LET IsKind(l) == l.kind = kind
    IN  SelectSeq(md, IsKind)

\* safe_print's fallback text: each status emoji replaced by its bracketed tag
AsciiLabel(label) ==
    CASE label = "<check> All Passed" -> "[PASS] All Passed"
      [] label = "<cross> Failures" -> "[FAIL] Failures"
      [] label = "<warn> Errors" -> "[WARN] Errors"
      [] label = "<warn> Issues" -> "[WARN] Issues"
      [] OTHER -> label

AsciiFallback(md) == [k \in 1..Len(md) |-> [md[k] EXCEPT !.label = AsciiLabel(@)]]

HasEmoji(md) == \E k \in 1..Len(md) : AsciiLabel(md[k].label) # md[k].label

(***************************************************************************)
(* Inputs of a run: the report file, the command line, the environment      *)
(***************************************************************************)
Attrs(given) == [a \in AttrNames |-> IF a \in DOMAIN given THEN given[a] ELSE Absent]

NameChars == <<"a", "b", "c", "d", "e", "f", "g", "h", "i", "j">>

Path == <<"p">>

\* parse_args() without options (the defaults of --max-fail and
\* --truncate-message are 50 and 300)
DefaultArgs ==
    [out |-> Absent, summary_env |-> FALSE, max_fail |-> 50, truncate_message |-> 300,
     show_passed |-> FALSE, no_emoji |-> FALSE]

\* os.environ["GITHUB_STEP_SUMMARY"], and what sys.stdout can do
DefaultEnv == [summary |-> Absent, encoding |-> "utf-8", reconfigurable |-> TRUE]

Input(file, doc, args, env) == [file |-> file, doc |-> doc, args |-> args, env |-> env]

\* --- reports of every shape: up to MaxNodes elements, any nesting ---------
RootTags == {"testsuites", "testsuite", "other"}

InnerTags == {"testsuite", "testcase", "failure", "other"}

RECURSIVE OnPathToRoot(_, _, _)
OnPathToRoot(p, a, x) == x = a \/ (x > 1 /\ OnPathToRoot(p, a, p[x]))

\* the parent vectors of the trees with n nodes numbered in document order
PreorderParents(n) ==
    {p \in [1..n -> 0..(n - 1)] :
        /\ p[1] = 0
        /\ \A i \in 2..n : p[i] \in 1..(i - 1) /\ OnPathToRoot(p, p[i], i - 1)}

TreeNode(i, tag, parent) ==
    Node(tag, parent,
         CASE tag = "testsuite" -> Attrs([name |-> <<NameChars[i]>>, tests |-> <<"1">>])
           [] tag = "testcase" -> Attrs([name |-> <<NameChars[i]>>])
           [] tag = "failure" -> Attrs([message |-> <<"m">>])
           [] OTHER -> NoAttrs,
         Absent)

TreeDocs ==
    UNION {{[i \in 1..n |-> TreeNode(i, t[i], p[i])] :
               p \in PreorderParents(n),
               t \in {u \in [1..n -> RootTags \cup InnerTags] :
                         u[1] \in RootTags /\ \A i \in 2..n : u[i] \in InnerTags}} :
           n \in 1..MaxNodes}

TreeInputs ==
    {Input("xml", d, [DefaultArgs EXCEPT !.show_passed = TRUE, !.max_fail = -1], DefaultEnv) :
        d \in TreeDocs}

\* --- reports that vary the declared counts --------------------------------
WideCounts == {Absent, <<>>, <<"0">>, <<"1">>, <<"-", "1">>, <<"x">>, <<" ", "2">>}

CountProfile(t, f, e, s) == [tests |-> t, failures |-> f, errors |-> e, skipped |-> s]

WideProfiles ==
    {CountProfile(t, f, e, s) : t \in WideCounts, f \in WideCounts, e \in WideCounts,
                                s \in WideCounts}

NarrowProfiles ==
    {CountProfile(<<"2">>, f, e, s) :
        f \in {<<"0">>, <<"1">>, <<"-", "1">>, <<"1", ".", "0">>},
        e \in {<<"0">>, <<"3">>}, s \in {Absent, <<"1">>}}

CountDoc(profiles) ==
    <<Node("testsuites", 0, NoAttrs, Absent)>>
    \o [k \in 1..Len(profiles) |->
           Node("testsuite", 1,
                [NoAttrs EXCEPT !["name"] = <<NameChars[k]>>,
                                !["tests"] = profiles[k].tests,
                                !["failures"] = profiles[k].failures,
                                !["errors"] = profiles[k].errors,
                                !["skipped"] = profiles[k].skipped],
                Absent)]

CountInputs ==
    {Input("xml", CountDoc(<<w>>), [DefaultArgs EXCEPT !.no_emoji = ne], DefaultEnv) :
        w \in WideProfiles, ne \in BOOLEAN}
    \cup UNION {{Input("xml", CountDoc(ps), DefaultArgs, DefaultEnv) :
                    ps \in [1..k -> NarrowProfiles]} : k \in 0..MaxSuites}

\* --- reports that vary one testcase's markers and their messages ----------
NoMarker == [present |-> FALSE, message |-> Absent, text |-> Absent]

MarkerChoices ==
    {NoMarker}
    \cup {[present |-> TRUE, message |-> m, text |-> t] :
             m \in {Absent, <<"a", "b">>}, t \in {Absent, <<" ">>, <<" ", "c", " ">>}}

SuiteHead ==
    <<Node("testsuites", 0, NoAttrs, Absent),
      Node("testsuite", 1, Attrs([name |-> <<"S">>, tests |-> <<"3">>, failures |-> <<"1">>]),
           Absent)>>

MarkerNodes(tag, choice, case) ==
    IF choice.present
    THEN <<Node(tag, case, [NoAttrs EXCEPT !["message"] = choice.message], choice.text)>>
    ELSE <<>>

\* one testcase (node 3) with its marker children; errorFirst puts the error
\* marker before the failure marker in the document
MessageDoc(cls, fail, err, skip, errorFirst) ==
    SuiteHead
    \o <<Node("testcase", 2, [NoAttrs EXCEPT !["name"] = <<"t">>, !["classname"] = cls], Absent)>>
    \o (IF errorFirst
        THEN MarkerNodes("error", err, 3) \o MarkerNodes("failure", fail, 3)
        ELSE MarkerNodes("failure", fail, 3) \o MarkerNodes("error", err, 3))
    \o (IF skip THEN <<Node("skipped", 3, NoAttrs, Absent)>> ELSE <<>>)

TruncateLimits == {-1, 0, 1, 4, 6, 300}

MessageInputs ==
    {Input("xml", MessageDoc(cls, fail, err, skip, ef),
           [DefaultArgs EXCEPT !.truncate_message = lim, !.show_passed = sp], DefaultEnv) :
        cls \in {Absent, <<"C">>}, fail \in MarkerChoices, err \in MarkerChoices,
        skip \in BOOLEAN, ef \in BOOLEAN, lim \in TruncateLimits, sp \in BOOLEAN}

\* --- reports that vary the number and kind of the testcases ---------------
CaseKinds == {"pass", "fail", "both", "skip"}

CaseNodes(kind, k, at) ==
    <<Node("testcase", 2, Attrs([name |-> <<NameChars[k]>>]), Absent)>>
    \o (IF kind \in {"fail", "both"}
        THEN <<Node("failure", at, Attrs([message |-> <<"f">>]), Absent)>> ELSE <<>>)
    \o (IF kind = "both"
        THEN <<Node("error", at, Attrs([message |-> <<"e">>]), Absent)>> ELSE <<>>)
    \o (IF kind = "skip" THEN <<Node("skipped", at, NoAttrs, Absent)>> ELSE <<>>)

RECURSIVE CasesDoc(_, _, _)
CasesDoc(doc, kinds, k) ==
    IF k > Len(kinds) THEN doc
    ELSE CasesDoc(doc \o CaseNodes(kinds[k], k, Len(doc) + 1), kinds, k + 1)

MaxFailChoices == {-1, 0, 1, 2, 50}

LimitInputs ==
    UNION {{Input("xml", CasesDoc(SuiteHead, kinds, 1),
                  [DefaultArgs EXCEPT !.max_fail = mf, !.show_passed = sp], DefaultEnv) :
               kinds \in [1..k -> CaseKinds], mf \in MaxFailChoices, sp \in BOOLEAN} :
           k \in 0..MaxCases}

\* --- runs that vary the file, the destinations and the console ------------
DeliveryDocs ==
    {CasesDoc(SuiteHead, <<"pass", "fail">>, 1),
     CasesDoc(SuiteHead, <<"pass">>, 1),
     CountDoc(<<CountProfile(<<"a", "b", "c">>, Absent, Absent, Absent)>>)}

DeliveryFiles ==
    {[file |-> "missing", doc |-> <<>>], [file |-> "malformed", doc |-> <<>>]}
    \cup {[file |-> "xml", doc |-> d] : d \in DeliveryDocs}

DeliveryInputs ==
    {Input(f.file, f.doc,
           [DefaultArgs EXCEPT !.out = out, !.summary_env = se, !.no_emoji = ne],
           [summary |-> sm, encoding |-> enc, reconfigurable |-> rc]) :
        f \in DeliveryFiles, out \in {Absent, <<>>, Path}, se \in BOOLEAN, ne \in BOOLEAN,
        sm \in {Absent, <<>>, Path}, enc \in {"utf-8", "cp1252"}, rc \in BOOLEAN}

Inputs == TreeInputs \cup CountInputs \cup MessageInputs \cup LimitInputs \cup DeliveryInputs

(***************************************************************************)
(* State of one run of main()                                               *)
(***************************************************************************)
VARIABLES
    file,           \* "missing", "malformed" or "xml": what --xml points at
    doc,            \* the parsed document when file = "xml"
    args,           \* the parsed command line
    env,            \* GITHUB_STEP_SUMMARY and the console's capabilities
    pc,             \* "start", "loop", "reconfigure", "write_out", "summary", "print", "exited"
    suites,         \* load_suites(root), as node numbers
    si,             \* number of suites the outer loop has entered
    cases,          \* suite.findall("testcase") of the suite being processed
    ci,             \* index in cases of the next testcase to process
    total_tests, total_fail, total_err, total_skip,
    table_rows,
    failing_cases,  \* (full_name, message) pairs
    passed_cases,   \* full names
    failing_src,    \* the testcase node behind each entry of failing_cases
    passed_src,     \* the testcase node behind each entry of passed_cases
    passed_total, status, markdown,
    encoding,       \* sys.stdout.encoding
    stdout, stderr, \* what was printed, in order
    out_file,       \* content of the --out file, as the documents it holds
    summary_file,   \* content of the $GITHUB_STEP_SUMMARY file, likewise
    exit_status     \* -1 while the process runs

inputVars == <<file, doc, args, env>>

loopVars == <<suites, si, cases, ci>>

totalVars == <<total_tests, total_fail, total_err, total_skip, table_rows>>

caseVars == <<failing_cases, passed_cases, failing_src, passed_src>>

renderVars == <<passed_total, status, markdown>>

outputVars == <<stdout, stderr, out_file, summary_file>>

vars ==
    <<inputVars, pc, loopVars, totalVars, caseVars, renderVars, encoding, outputVars,
      exit_status>>

Init ==
    /\ \E in \in Inputs :
          /\ file = in.file
          /\ doc = in.doc
          /\ args = in.args
          /\ env = in.env
          /\ encoding = in.env.encoding
    /\ pc = "start"
    /\ suites = <<>>
    /\ si = 0
    /\ cases = <<>>
    /\ ci = 1
    /\ total_tests = 0
    /\ total_fail = 0
    /\ total_err = 0
    /\ total_skip = 0
    /\ table_rows = <<>>
    /\ failing_cases = <<>>
    /\ passed_cases = <<>>
    /\ failing_src = <<>>
    /\ passed_src = <<>>
    /\ passed_total = 0
    /\ status = ""
    /\ markdown = <<>>
    /\ stdout = <<>>
    /\ stderr = <<>>
    /\ out_file = <<>>
    /\ summary_file = <<>>
    /\ exit_status = -1

\* a console note, or the document itself
Printed(what, body) == [what |-> what, body |-> body]

\* sys.exit(status), or the interpreter ending after an uncaught exception
Exit(code, message) ==
    /\ stderr' = Append(stderr, message)
    /\ exit_status' = code
    /\ pc' = "exited"
    /\ UNCHANGED <<inputVars, loopVars, totalVars, caseVars, renderVars, encoding, stdout,
                   out_file, summary_file>>

\* xml_path.exists() is false
NotFound ==
    /\ pc = "start"
    /\ file = "missing"
    /\ Exit(1, "[ERROR] XML file not found")

\* ET.parse raises ParseError
ParseFail ==
    /\ pc = "start"
    /\ file = "malformed"
    /\ Exit(2, "[ERROR] Failed to parse XML")

\* the file exists and parses: load_suites and the initial totals
Load ==
    /\ pc = "start"
    /\ file = "xml"
    /\ suites' = load_suites(doc)
    /\ pc' = "loop"
    /\ UNCHANGED <<inputVars, si, cases, ci, totalVars, caseVars, renderVars, encoding,
                   outputVars, exit_status>>

AtSuite == pc = "loop" /\ ci > Len(cases) /\ si < Len(suites)

AtCase == pc = "loop" /\ ci <= Len(cases)

CountNames == <<"tests", "failures", "errors", "skipped">>

CountsOk(n) == \A k \in 1..4 : CountAttr(doc, n, CountNames[k]).ok

\* one of the four int() calls of the next suite raises ValueError, which
\* nothing catches: the interpreter prints a traceback and exits with 1
SuiteRaise ==
    /\ AtSuite
    /\ ~CountsOk(suites[si + 1])
    /\ Exit(1, "Traceback: ValueError")

\* the head of the outer loop body: parse the counts, add to the totals,
\* append the row, and find the suite's testcases
SuiteBegin ==
    /\ AtSuite
    /\ CountsOk(suites[si + 1])
    /\ LET suite == suites[si + 1]
           tests == CountAttr(doc, suite, "tests").val
           failures == CountAttr(doc, suite, "failures").val
           errors == CountAttr(doc, suite, "errors").val
           skipped == CountAttr(doc, suite, "skipped").val
       IN  /\ total_tests' = total_tests + tests
           /\ total_fail' = total_fail + failures
           /\ total_err' = total_err + errors
           /\ total_skip' = total_skip + skipped
           /\ table_rows' =
                 Append(table_rows, SuiteRow(doc, suite, tests, failures, errors, skipped))
           /\ cases' = FindAll(doc, suite, "testcase")
    /\ si' = si + 1
    /\ ci' = 1
    /\ UNCHANGED <<inputVars, pc, suites, caseVars, renderVars, encoding, outputVars,
                   exit_status>>

\* the failing branch of the inner loop body
CaseMessage(c) == Truncate(JoinParts(MsgParts(doc, c)), args.truncate_message)

\* variant of CaseStep that counts a failing case into total_fail
CaseStepCounting ==
    /\ AtCase
    /\ LET c == cases[ci]
           branch == CaseBranch(doc, c)
       IN  /\ failing_cases' =
                 IF branch = "failing"
                 THEN Append(failing_cases, [name |-> FullName(doc, c), message |-> CaseMessage(c)])
                 ELSE failing_cases
           /\ failing_src' = IF branch = "failing" THEN Append(failing_src, c) ELSE failing_src
           /\ passed_cases' =
                 IF branch = "passed" /\ args.show_passed
                 THEN Append(passed_cases, FullName(doc, c))
                 ELSE passed_cases
           /\ passed_src' =
                 IF branch = "passed" /\ args.show_passed THEN Append(passed_src, c)
                 ELSE passed_src
           /\ total_fail' = IF branch = "failing" THEN total_fail + 1 ELSE total_fail
    /\ ci' = ci + 1
    /\ UNCHANGED <<inputVars, pc, suites, si, cases, total_tests, total_err, total_skip,
                   table_rows, renderVars, encoding, outputVars, exit_status>>

\* one pass of the inner loop body
CaseStep ==
    /\ AtCase
    /\ LET c == cases[ci]
           branch == CaseBranch(doc, c)
       IN  /\ failing_cases' =
                 IF branch = "failing"
                 THEN Append(failing_cases, [name |-> FullName(doc, c), message |-> CaseMessage(c)])
                 ELSE failing_cases
           /\ failing_src' = IF branch = "failing" THEN Append(failing_src, c) ELSE failing_src
           /\ passed_cases' =
                 IF branch = "passed" /\ args.show_passed
                 THEN Append(passed_cases, FullName(doc, c))
                 ELSE passed_cases
           /\ passed_src' =
                 IF branch = "passed" /\ args.show_passed THEN Append(passed_src, c)
                 ELSE passed_src
    /\ ci' = ci + 1
    /\ UNCHANGED <<inputVars, pc, suites, si, cases, totalVars, renderVars, encoding,
                   outputVars, exit_status>>

\* after the loops: passed_total, the status label and the document
Render ==
    /\ pc = "loop"
    /\ ci > Len(cases)
    /\ si = Len(suites)
    /\ passed_total' = total_tests - total_fail - total_err - total_skip
    /\ status' = StatusLabel(args.no_emoji, total_fail, total_err)
    /\ markdown' =
          RenderLines(status', table_rows, total_tests, passed_total', total_fail, total_err,
                      total_skip, failing_cases, passed_cases, args.max_fail)
    /\ pc' = "reconfigure"
    /\ UNCHANGED <<inputVars, loopVars, totalVars, caseVars, encoding, outputVars,
                   exit_status>>

\* sys.stdout.reconfigure(encoding="utf-8"), tried only with emoji output; a
\* stdout without reconfigure, or one that refuses, keeps its encoding
Reconfigure ==
    /\ pc = "reconfigure"
    /\ encoding' = IF ~args.no_emoji /\ env.reconfigurable THEN "utf-8" ELSE encoding
    /\ pc' = "write_out"
    /\ UNCHANGED <<inputVars, loopVars, totalVars, caseVars, renderVars, outputVars,
                   exit_status>>

\* a str option or variable that is set and not empty
Truthy(text) == text # Absent /\ text # <<>>

\* if args.out: write_text, then the note
WriteOut ==
    /\ pc = "write_out"
    /\ IF Truthy(args.out)
       THEN /\ out_file' = <<markdown>>
            /\ stdout' = Append(stdout, Printed("[INFO] Markdown written", <<>>))
       ELSE UNCHANGED <<out_file, stdout>>
    /\ pc' = "summary"
    /\ UNCHANGED <<inputVars, loopVars, totalVars, caseVars, renderVars, encoding, stderr,
                   summary_file, exit_status>>

\* if args.summary_env: append to the file the variable names, or warn
SummaryEnv ==
    /\ pc = "summary"
    /\ IF args.summary_env
       THEN IF Truthy(env.summary)
            THEN /\ summary_file' = Append(summary_file, markdown)
                 /\ stdout' = Append(stdout, Printed("[INFO] Appended", <<>>))
            ELSE /\ stdout' = Append(stdout, Printed("[WARN] not set", <<>>))
                 /\ UNCHANGED summary_file
       ELSE UNCHANGED <<summary_file, stdout>>
    /\ pc' = "print"
    /\ UNCHANGED <<inputVars, loopVars, totalVars, caseVars, renderVars, encoding, stderr,
                   out_file, exit_status>>

\* safe_print(markdown): print raises UnicodeEncodeError when the console
\* cannot encode the emoji, and the ASCII fallback is printed instead; then
\* main returns and the process ends with status 0
SafePrint ==
    /\ pc = "print"
    /\ stdout' =
          Append(stdout,
                 IF encoding # "utf-8" /\ HasEmoji(markdown)
                 THEN Printed("markdown", AsciiFallback(markdown))
                 ELSE Printed("markdown", markdown))
    /\ exit_status' = 0
    /\ pc' = "exited"
    /\ UNCHANGED <<inputVars, loopVars, totalVars, caseVars, renderVars, encoding, stderr,
                   out_file, summary_file>>

Next ==
    \/ NotFound
    \/ ParseFail
    \/ Load
    \/ SuiteRaise
    \/ SuiteBegin
    \/ CaseStep
    \/ Render
    \/ Reconfigure
    \/ WriteOut
    \/ SummaryEnv
    \/ SafePrint

Spec == Init /\ [][Next]_vars

(***************************************************************************)
(* Vocabulary of the properties                                             *)
(***************************************************************************)
\* the loops have ended and the document has been rendered
Rendered == pc \in {"reconfigure", "write_out", "summary", "print"} \/ exit_status = 0

Delivered == pc = "exited" /\ exit_status = 0

InSeq(x, seq) == \E k \in 1..Len(seq) : seq[k] = x

Position(x, seq) == CHOOSE k \in 1..Len(seq) : seq[k] = x

Occurrences(x, seq) == Cardinality({k \in 1..Len(seq) : seq[k] = x})

RECURSIVE SumOver(_, _)
SumOver(seq, attr) ==
    IF seq = <<>> THEN 0
    ELSE CountAttr(doc, Head(seq), attr).val + SumOver(Tail(seq), attr)

RECURSIVE SumPassed(_)
SumPassed(rows) == IF rows = <<>> THEN 0 ELSE Head(rows).passed + SumPassed(Tail(rows))

\* what the claim of tolerance gives an attribute: 0 unless it is an integer
TolerantCount(n, attr) ==
    LET v == doc[n].attrs[attr]
    IN  IF v = Absent \/ ~PyInt(v).ok THEN 0 ELSE PyInt(v).val

SuccessLabel == IF args.no_emoji THEN "ALL PASSED" ELSE "<check> All Passed"

FailuresLabel == IF args.no_emoji THEN "FAILURES" ELSE "<cross> Failures"

ErrorsLabel == IF args.no_emoji THEN "ERRORS" ELSE "<warn> Errors"

(***************************************************************************)
(* C1: every report that parses is rendered and delivered without an error, *)
(* whatever its tests/failures/errors/skipped attributes hold: an absent or *)
(* unparseable count is taken as 0.                                         *)
(***************************************************************************)
C1_CountsTolerated ==
    file = "xml" =>
        /\ stderr = <<>>
        /\ pc = "exited" => exit_status = 0 /\ stdout # <<>>
        /\ \A k \in 1..Len(table_rows) :
              /\ table_rows[k].tests = TolerantCount(suites[k], "tests")
              /\ table_rows[k].failures = TolerantCount(suites[k], "failures")
              /\ table_rows[k].errors = TolerantCount(suites[k], "errors")
              /\ table_rows[k].skipped = TolerantCount(suites[k], "skipped")

(***************************************************************************)
(* C2: a run ends in one of three outcomes with pairwise distinct exit      *)
(* statuses: missing input (non-zero, nothing delivered), malformed input   *)
(* (another non-zero status, nothing delivered), or success (0); nothing    *)
(* else about the input ends the run with one of the failure statuses.      *)
(***************************************************************************)
NothingDelivered == stdout = <<>> /\ out_file = <<>> /\ summary_file = <<>>

C2_ThreeOutcomes ==
    pc = "exited" =>
        \/ file = "missing" /\ exit_status = 1 /\ NothingDelivered
        \/ file = "malformed" /\ exit_status = 2 /\ NothingDelivered
        \/ file = "xml" /\ exit_status = 0

(***************************************************************************)
(* C3: the status is the success label exactly when the global failed and   *)
(* errored counts are both zero, else the failures label if failed > 0,     *)
(* else the errors label if errored > 0, in both vocabularies.              *)
(***************************************************************************)
C3_StatusByZeroCounts ==
    Rendered =>
        /\ status = SuccessLabel <=> (total_fail = 0 /\ total_err = 0)
        /\ ~(total_fail = 0 /\ total_err = 0) /\ total_fail > 0 => status = FailuresLabel
        /\ ~(total_fail = 0 /\ total_err = 0) /\ ~(total_fail > 0) /\ total_err > 0
              => status = ErrorsLabel

(***************************************************************************)
(* What the code computes for the status: the success label exactly when    *)
(* the sum of the global failed and errored counts is zero, else the        *)
(* failures label if failed is non-zero, else the errors label; the status  *)
(* line of the document carries it.  With no negative global count this is  *)
(* the rule of C3.                                                          *)
(***************************************************************************)
StatusBySum ==
    Rendered =>
        /\ status = SuccessLabel <=> total_fail + total_err = 0
        /\ total_fail + total_err # 0 /\ total_fail # 0 => status = FailuresLabel
        /\ total_fail + total_err # 0 /\ total_fail = 0 => status = ErrorsLabel
        /\ markdown[2] = Line("status", status, <<>>, <<>>)
        /\ total_fail >= 0 /\ total_err >= 0 =>
              /\ status = SuccessLabel <=> (total_fail = 0 /\ total_err = 0)
              /\ total_fail > 0 => status = FailuresLabel
              /\ total_fail = 0 /\ total_err > 0 => status = ErrorsLabel

(***************************************************************************)
(* C4: each global count is the sum of that declared count over the groups  *)
(* aggregated so far, each group's passed is total - failed - errored -     *)
(* skipped, and global passed is global total - failed - errored - skipped, *)
(* which is the sum of the groups' passed values; nothing is clamped at 0.  *)
(***************************************************************************)
C4_TotalsAreSums ==
    /\ Len(table_rows) = si
    /\ total_tests = SumOver(SubSeq(suites, 1, si), "tests")
    /\ total_fail = SumOver(SubSeq(suites, 1, si), "failures")
    /\ total_err = SumOver(SubSeq(suites, 1, si), "errors")
    /\ total_skip = SumOver(SubSeq(suites, 1, si), "skipped")
    /\ \A k \in 1..Len(table_rows) :
          LET r == table_rows[k]
          IN  /\ r.tests = CountAttr(doc, suites[k], "tests").val
              /\ r.failures = CountAttr(doc, suites[k], "failures").val
              /\ r.errors = CountAttr(doc, suites[k], "errors").val
              /\ r.skipped = CountAttr(doc, suites[k], "skipped").val
              /\ r.passed = r.tests - r.failures - r.errors - r.skipped
    /\ Rendered =>
          /\ si = Len(suites)
          /\ passed_total = total_tests - total_fail - total_err - total_skip
          /\ passed_total = SumPassed(table_rows)
          /\ LinesOf(markdown, "total") =
                <<Line("total", "Total", <<>>, <<total_tests>>),
                  Line("total", "Passed", <<>>, <<passed_total>>),
                  Line("total", "Failed", <<>>, <<total_fail>>),
                  Line("total", "Errors", <<>>, <<total_err>>),
                  Line("total", "Skipped", <<>>, <<total_skip>>)>>

C4_Witness ==
    /\ Delivered
    /\ Len(table_rows) >= 2
    /\ passed_total < 0
    /\ \E k \in 1..Len(table_rows) : table_rows[k].passed < 0
    /\ \E k \in 1..Len(table_rows) : table_rows[k].passed > 0

(***************************************************************************)
(* C5: in every run whose input exists and parses, whatever the --out,      *)
(* --summary-env and GITHUB_STEP_SUMMARY settings, the document is written  *)
(* to the console and that write is the last action: it follows the file    *)
(* write with its note and the append (or the warning); an unset variable   *)
(* appends nothing and does not stop the run.                               *)
(***************************************************************************)
ExpectedNotes ==
    (IF Truthy(args.out) THEN <<Printed("[INFO] Markdown written", <<>>)>> ELSE <<>>)
    \o (IF ~args.summary_env THEN <<>>
        ELSE IF Truthy(env.summary) THEN <<Printed("[INFO] Appended", <<>>)>>
        ELSE <<Printed("[WARN] not set", <<>>)>>)

C5_ConsoleLast ==
    file = "xml" /\ pc = "exited" =>
        /\ stdout # <<>>
        /\ stdout[Len(stdout)].what = "markdown"
        /\ stdout[Len(stdout)].body \in {markdown, AsciiFallback(markdown)}
        /\ SubSeq(stdout, 1, Len(stdout) - 1) = ExpectedNotes
        /\ out_file = IF Truthy(args.out) THEN <<markdown>> ELSE <<>>
        /\ summary_file = IF args.summary_env /\ Truthy(env.summary) THEN <<markdown>> ELSE <<>>

(***************************************************************************)
(* What the code guarantees of delivery: a run that gets past the           *)
(* aggregation ends with the document on the console, after the notes, and  *)
(* with the files as the options say.                                       *)
(***************************************************************************)
DeliveryOrder ==
    Delivered =>
        /\ stdout[Len(stdout)].what = "markdown"
        /\ stdout[Len(stdout)].body \in {markdown, AsciiFallback(markdown)}
        /\ SubSeq(stdout, 1, Len(stdout) - 1) = ExpectedNotes
        /\ out_file = IF Truthy(args.out) THEN <<markdown>> ELSE <<>>
        /\ summary_file = IF args.summary_env /\ Truthy(env.summary) THEN <<markdown>> ELSE <<>>

(***************************************************************************)
(* C6: with K failing cases and --max-fail S: for 0 < S < K the first S     *)
(* cases are listed, in order, and a trailing note gives K - S; for         *)
(* S >= K > 0 and for S < 0 all K are listed and there is no note; for      *)
(* S = 0 or K = 0 there is no "Failed / Error TestCases" section at all.    *)
(***************************************************************************)
FailItem(entry) == Line("fail_item", "", <<escape_md(entry.name), escape_md(entry.message)>>, <<>>)

\* the section starts at the heading at line h and lists the first n cases
ListsFirst(n, h) ==
    /\ Len(LinesOf(markdown, "fail_item")) = n
    /\ \A k \in 1..n : markdown[h + k] = FailItem(failing_cases[k])

C6_DisplayLimit ==
    Rendered =>
        LET K == Len(failing_cases)
            S == args.max_fail
            headings == {h \in 1..Len(markdown) : markdown[h].kind = "fail_heading"}
            notes == LinesOf(markdown, "hidden_note")
        IN  /\ S = 0 \/ K = 0 =>
                  /\ headings = {}
                  /\ notes = <<>>
                  /\ LinesOf(markdown, "fail_item") = <<>>
            /\ S # 0 /\ K > 0 => Cardinality(headings) = 1
            /\ \A h \in headings :
                  /\ 0 < S /\ S < K =>
                        /\ ListsFirst(S, h)
                        /\ notes = <<Line("hidden_note", "", <<>>, <<K - S>>)>>
                        /\ markdown[h + S + 1] = notes[1]
                  /\ S >= K \/ S < 0 => ListsFirst(K, h) /\ notes = <<>>

C6_Witness ==
    /\ Delivered
    /\ args.max_fail = 2
    /\ Len(failing_cases) = 3
    /\ Len(LinesOf(markdown, "fail_item")) = 2
    /\ LinesOf(markdown, "hidden_note") # <<>>

(***************************************************************************)
(* C7: a case has at most one entry in the failing-cases list and is never  *)
(* in both that list and the passed-cases list; a failing case's combined   *)
(* message is its failure part then its error part joined with " | ", each  *)
(* part being the marker's message, a space and its text, trimmed, and an   *)
(* empty part left out; the entry holds that message (cut at the            *)
(* truncation limit when it is longer).                                     *)
(***************************************************************************)
\* the part of the first marker with that tag, <<>> when the case has none
PartOf(c, tag) ==
    LET hits == {i \in 1..Len(doc) : doc[i].parent = c /\ doc[i].tag = tag}
    IN  IF hits = {} THEN <<>>
        ELSE LET m == CHOOSE i \in hits : \A j \in hits : i <= j
                 raw == (IF doc[m].attrs["message"] = Absent THEN <<>>
                         ELSE doc[m].attrs["message"])
                        \o <<" ">> \o (IF doc[m].text = Absent THEN <<>> ELSE doc[m].text)
             IN  Strip(raw)

Combined(c) ==
    LET f == PartOf(c, "failure")
        e == PartOf(c, "error")
    IN  IF f # <<>> /\ e # <<>> THEN f \o <<" ", "|", " ">> \o e
        ELSE IF f # <<>> THEN f
        ELSE e

HasMarker(c, tag) == \E i \in 1..Len(doc) : doc[i].parent = c /\ doc[i].tag = tag

\* the testcases the loops have been through
Processed ==
    {c \in 1..Len(doc) :
        /\ doc[c].tag = "testcase"
        /\ \E k \in 1..si :
              /\ doc[c].parent = suites[k]
              /\ k = si => InSeq(c, SubSeq(cases, 1, ci - 1))}

C7_OneEntryPerCase ==
    /\ Len(failing_src) = Len(failing_cases)
    /\ Len(passed_src) = Len(passed_cases)
    /\ \A c \in 1..Len(doc) :
          /\ Occurrences(c, failing_src) <= 1
          /\ ~(InSeq(c, failing_src) /\ InSeq(c, passed_src))
    /\ \A c \in Processed :
          (HasMarker(c, "failure") \/ HasMarker(c, "error")) => Occurrences(c, failing_src) = 1
    /\ \A k \in 1..Len(failing_src) :
          LET c == failing_src[k]
              whole == Combined(c)
              limit == args.truncate_message
          IN  /\ c \in Processed
              /\ HasMarker(c, "failure") \/ HasMarker(c, "error")
              /\ limit <= 0 \/ Len(whole) <= limit => failing_cases[k].message = whole
              /\ limit > 0 /\ Len(whole) > limit =>
                    SubSeq(failing_cases[k].message, 1, limit) = SubSeq(whole, 1, limit)

C7_Witness ==
    /\ Delivered
    /\ args.show_passed
    /\ \E k \in 1..Len(failing_src) :
          LET c == failing_src[k]
          IN  /\ HasMarker(c, "failure")
              /\ HasMarker(c, "error")
              /\ PartOf(c, "failure") # <<>>
              /\ PartOf(c, "error") # <<>>
              /\ failing_cases[k].message =
                    PartOf(c, "failure") \o <<" ", "|", " ">> \o PartOf(c, "error")
              /\ Occurrences(c, failing_src) = 1

IsGroupOf(i) ==
    IF doc[1].tag = "testsuites" THEN doc[i].tag = "testsuite" /\ doc[i].parent = 1
    ELSE IF doc[1].tag = "testsuite" THEN i = 1
    ELSE doc[i].tag = "testsuite"

\* entries of one group stay together, groups in the order of suites, and
\* the cases of a group in document order
GroupedInOrder(src) ==
    \A i, j \in 1..Len(src) :
        i < j =>
            /\ InSeq(doc[src[i]].parent, suites)
            /\ InSeq(doc[src[j]].parent, suites)
            /\ \/ Position(doc[src[i]].parent, suites) < Position(doc[src[j]].parent, suites)
               \/ doc[src[i]].parent = doc[src[j]].parent /\ src[i] < src[j]

C9_GroupsByRootShape ==
    pc # "start" /\ file = "xml" =>
        /\ \A i \in 1..Len(doc) : InSeq(i, suites) <=> IsGroupOf(i)
        /\ \A i, j \in 1..Len(suites) : i < j => suites[i] < suites[j]
        /\ \A k \in 1..Len(table_rows) :
              table_rows[k].name =
                  IF doc[suites[k]].attrs["name"] \in {Absent, <<>>} THEN Unnamed
                  ELSE doc[suites[k]].attrs["name"]
        /\ GroupedInOrder(failing_src)
        /\ GroupedInOrder(passed_src)
        /\ Rendered =>
              /\ Len(LinesOf(markdown, "row")) = Len(suites)
              /\ \A k \in 1..Len(suites) :
                    LinesOf(markdown, "row")[k].texts[1] = escape_md(table_rows[k].name)
              /\ \A c \in 1..Len(doc) :
                    doc[c].tag = "testcase" /\ InSeq(doc[c].parent, suites) =>
                        IF HasMarker(c, "failure") \/ HasMarker(c, "error")
                        THEN InSeq(c, failing_src)
                        ELSE args.show_passed /\ ~HasMarker(c, "skipped") => InSeq(c, passed_src)

C9_Witness ==
    /\ Delivered
    /\ doc[1].tag = "other"
    /\ Len(suites) = 2
    /\ doc[suites[2]].parent = suites[1]
    /\ Len(passed_src) + Len(failing_src) >= 1

(***************************************************************************)
(* C10: processing a case changes neither the global totals nor the         *)
(* per-group rows, and the status label, the per-group table and the Totals *)
(* table of the document are those of the groups' declared attributes       *)
(* alone, however many cases fail.                                          *)
(***************************************************************************)
DeclaredRows ==
    [k \in 1..Len(suites) |->
        LET n == suites[k]
            t == CountAttr(doc, n, "tests").val
            f == CountAttr(doc, n, "failures").val
            e == CountAttr(doc, n, "errors").val
            s == CountAttr(doc, n, "skipped").val
        IN  Line("row", "",
                 <<escape_md(IF doc[n].attrs["name"] \in {Absent, <<>>} THEN Unnamed
                             ELSE doc[n].attrs["name"]),
                   escape_md(IF doc[n].attrs["time"] = Absent THEN <<>> ELSE doc[n].attrs["time"])>>,
                 <<t, t - f - e - s, f, e, s>>)]

DeclaredTotals ==
    LET t == SumOver(suites, "tests")
        f == SumOver(suites, "failures")
        e == SumOver(suites, "errors")
        s == SumOver(suites, "skipped")
    IN  <<t, t - f - e - s, f, e, s>>

C10_CasesLeaveTotalsAlone ==
    /\ [][AtCase => UNCHANGED <<totalVars, renderVars>>]_vars
    /\ [](Rendered =>
            /\ LinesOf(markdown, "row") = DeclaredRows
            /\ [k \in 1..5 |-> LinesOf(markdown, "total")[k].nums[1]] = DeclaredTotals
            /\ status = (IF DeclaredTotals[3] + DeclaredTotals[4] = 0 THEN SuccessLabel
                         ELSE IF DeclaredTotals[3] # 0 THEN FailuresLabel
                         ELSE ErrorsLabel)
            /\ SubSeq(markdown, 1, 5 + Len(suites) + 9) =
                  RenderLines(status, table_rows, total_tests, passed_total, total_fail,
                              total_err, total_skip, <<>>, <<>>, 0))

C10_Witness ==
    /\ Delivered
    /\ Len(failing_cases) = 3
    /\ total_fail = 1
    /\ status = "<cross> Failures"
====
